---- MODULE Spec2Model ----
(***************************************************************************)
(* Model of app.py, the static-site build pipeline of smizell/covid19:     *)
(* load_docs, load_data, set_last_modified, render, prepare, persist and   *)
(* their driver build().                                                   *)
(*                                                                         *)
(* Strings (file names, directory names, paths) are sequences of           *)
(* one-character strings, so that str.replace, str.endswith, str.split,    *)
(* str.join and os.path.join are computed character by character, the way  *)
(* Python computes them.                                                    *)
(***************************************************************************)
EXTENDS Integers, Sequences, FiniteSets, TLC

VARIABLES
    pc,         \* position of build(): the stage that runs next
    idx,        \* 1-based position of the running stage's for-loop
    tree,       \* the files of ./content in os.walk order: [dir, name, text]
    dataDir,    \* os.listdir('./data'): sequence of file names
    staticTree, \* ./static: [exists, files], files a set of [path, content]
    docs,       \* the list of Document objects build() passes through the stages
    data,       \* the dict load_data builds: set of <<data_name, file_name>>
    files,      \* regular files below ./build: set of [path, content]
    dirs,       \* directories at or below ./build: set of component paths
    errAt,      \* the stage that raised, "" while nothing has raised
    loaded,     \* history: the documents exactly as load_docs returned them
    lookup,     \* history: per document, what the git lookup returned
    calls,      \* history: the template render calls, [doc, kind, ctx]
    branches,   \* history: per document, the render branches that executed
    touched,    \* history: per document, the stages that have processed it
    wrote,      \* history: persist has modified ./build
    stale       \* history: the files ./build held when the build started

vars == <<pc, idx, tree, dataDir, staticTree, docs, data, files, dirs, errAt,
          loaded, lookup, calls, branches, touched, wrote, stale>>

(***************************************************************************)
(* Bounds of the model.                                                    *)
(***************************************************************************)
MaxDocs == 2
MaxPieces == 3
MaxDirPieces == 2
MaxData == 2

(***************************************************************************)
(* String constants of the program.                                        *)
(***************************************************************************)
BUILD_DIR == <<".", "/", "b", "u", "i", "l", "d">>
CONTENT_DIR == <<".", "/", "c", "o", "n", "t", "e", "n", "t">>
STATIC_DIR == <<".", "/", "s", "t", "a", "t", "i", "c">>
DOT_MD == <<".", "m", "d">>
DOT_JINJA2 == <<".", "j", "i", "n", "j", "a", "2">>
DOT_HTML == <<".", "h", "t", "m", "l">>
INDEX_HTML == <<"i", "n", "d", "e", "x", ".", "h", "t", "m", "l">>
CSV == <<"c", "s", "v">>

(***************************************************************************)
(* Python string operations.                                               *)
(***************************************************************************)
StartsWith(s, pre) ==
    /\ Len(pre) <= Len(s)
    /\ SubSeq(s, 1, Len(pre)) = pre

\* a suffix test that accepts the text anywhere in the string
EndsWithAnywhere(s, suf) ==
    \E k \in 1..(Len(s) - Len(suf) + 1) : SubSeq(s, k, k + Len(suf) - 1) = suf

EndsWith(s, suf) ==
    /\ Len(suf) <= Len(s)
    /\ SubSeq(s, Len(s) - Len(suf) + 1, Len(s)) = suf

\* s.replace(old, new): every non-overlapping occurrence, left to right
RECURSIVE Replace(_, _, _)
Replace(s, old, new) ==
    IF Len(s) < Len(old) THEN s
    ELSE IF SubSeq(s, 1, Len(old)) = old
         THEN new \o Replace(SubSeq(s, Len(old) + 1, Len(s)), old, new)
         ELSE <<Head(s)>> \o Replace(Tail(s), old, new)

\* s.split(ch): the pieces between the occurrences of ch, empty pieces kept
RECURSIVE Split(_, _)
Split(s, ch) ==
    IF s = <<>> THEN << <<>> >>
    ELSE LET r == Split(Tail(s), ch)
         IN  IF Head(s) = ch
             THEN << <<>> >> \o r
             ELSE << <<Head(s)>> \o Head(r) >> \o Tail(r)

\* ch.join(parts)
RECURSIVE Join(_, _)
Join(parts, ch) ==
    IF parts = <<>> THEN <<>>
    ELSE IF Len(parts) = 1 THEN Head(parts)
    ELSE Head(parts) \o <<ch>> \o Join(Tail(parts), ch)

\* os.path.join(a, b) on a POSIX system
PathJoin(a, b) ==
    IF StartsWith(b, <<"/">>) THEN b
    ELSE IF a = <<>> \/ EndsWith(a, <<"/">>) THEN a \o b
    ELSE a \o <<"/">> \o b

(***************************************************************************)
(* The file system resolves a path to its components: empty components and *)
(* "." components name the directory they stand in.                        *)
(***************************************************************************)
RECURSIVE DropDots(_)
DropDots(parts) ==
    IF parts = <<>> THEN <<>>
    ELSE IF Head(parts) = <<>> \/ Head(parts) = <<".">>
         THEN DropDots(Tail(parts))
         ELSE <<Head(parts)>> \o DropDots(Tail(parts))

Components(path) == DropDots(Split(path, "/"))

Prefixes(p) == {SubSeq(p, 1, k) : k \in 1..Len(p)}

ProperPrefixes(p) == {SubSeq(p, 1, k) : k \in 1..(Len(p) - 1)}

(***************************************************************************)
(* Dictionaries (metadata, data) are sets of <<key, value>> pairs with at  *)
(* most one pair per key.                                                  *)
(***************************************************************************)
Keys(m) == {p[1] : p \in m}

SetKey(m, k, v) == {p \in m : p[1] # k} \cup {<<k, v>>}

IsFile(fs, p) == \E f \in fs : f.path = p

WriteFile(fs, p, c) == {f \in fs : f.path # p} \cup {[path |-> p, content |-> c]}

(***************************************************************************)
(* Black-box collaborators.  A content value is the raw body together with *)
(* the conversions applied to it so far; a template's output is determined *)
(* by the template, the context it was given and the document.             *)
(***************************************************************************)
Context(dt, ds) == [data |-> dt, docs |-> ds]

\* markdown.markdown(text)
Markdown(content) ==
    [content EXCEPT !.ops = Append(@, [op |-> "markdown", data |-> {}, docs |-> <<>>])]

\* template.render(context=context, doc=doc); kind is "page" for the layout
\* template and "self" for a template compiled from the document's own body
TemplateRender(kind, context, doc) ==
    [doc.content EXCEPT
        !.ops = Append(@, [op |-> kind, data |-> context.data, docs |-> context.docs])]

(***************************************************************************)
(* load_docs                                                               *)
(***************************************************************************)
\* frontmatter.load: the metadata block and the body of a file
Document(dir_name, file_name, text) ==
    [dir_name |-> dir_name, file_name |-> file_name,
     meta |-> text.fm, content |-> [body |-> text.body, ops |-> <<>>]]

LoadDocsResult(t) == [i \in 1..Len(t) |-> Document(t[i].dir, t[i].name, t[i].text)]

(***************************************************************************)
(* build: the order of the stages                                          *)
(***************************************************************************)
\* build with prepare called before render
NextStageSwapped(stage) ==
    CASE stage = "load_docs" -> "load_data"
      [] stage = "load_data" -> "set_last_modified"
      [] stage = "set_last_modified" -> "prepare"
      [] stage = "prepare" -> "render"
      [] stage = "render" -> "persist_reset"
      [] stage = "persist_reset" -> "persist"
      [] stage = "persist" -> "done"

NextStage(stage) ==
    CASE stage = "load_docs" -> "load_data"
      [] stage = "load_data" -> "set_last_modified"
      [] stage = "set_last_modified" -> "render"
      [] stage = "render" -> "prepare"
      [] stage = "prepare" -> "persist_reset"
      [] stage = "persist_reset" -> "persist"
      [] stage = "persist" -> "done"

Touch(i, stage) == [touched EXCEPT ![i] = @ \cup {stage}]

LoadDocs ==
    /\ pc = "load_docs"
    /\ docs' = LoadDocsResult(tree)
    /\ loaded' = LoadDocsResult(tree)
    /\ lookup' = [i \in 1..Len(tree) |-> <<"pending", "">>]
    /\ branches' = [i \in 1..Len(tree) |-> <<>>]
    /\ touched' = [i \in 1..Len(tree) |-> {"load_docs"}]
    /\ pc' = NextStage(pc)
    /\ idx' = 1
    /\ UNCHANGED <<stale, tree, dataDir, staticTree, data, files, dirs, errAt, calls, wrote>>

(***************************************************************************)
(* load_data: one step per entry of os.listdir(DATA_DIR)                   *)
(***************************************************************************)
\* data_name, ext = file_name.split('.') unpacks exactly two values
Unpacks(file_name) == Len(Split(file_name, ".")) = 2

LoadDataEntry(dt, file_name) ==
    LET parts == Split(file_name, ".")
    IN  IF parts[2] = CSV THEN SetKey(dt, parts[1], file_name) ELSE dt

LoadData ==
    /\ pc = "load_data"
    /\ idx <= Len(dataDir)
    /\ LET file_name == dataDir[idx]
       IN  IF StartsWith(file_name, <<"_">>)
           THEN /\ idx' = idx + 1
                /\ UNCHANGED <<pc, data, errAt>>
           ELSE IF Unpacks(file_name)
           THEN /\ data' = LoadDataEntry(data, file_name)
                /\ idx' = idx + 1
                /\ UNCHANGED <<pc, errAt>>
           ELSE /\ pc' = "error"
                /\ errAt' = "load_data"
                /\ UNCHANGED <<idx, data>>
    /\ UNCHANGED <<stale, tree, dataDir, staticTree, docs, files, dirs,
                   loaded, lookup, calls, branches, touched, wrote>>

(***************************************************************************)
(* set_last_modified: one step per document                                *)
(***************************************************************************)
\* what `git log -1 --format="%ad" -- path` can hand back: nothing, a date in
\* the expected format, or a date strptime rejects
LookupOutcomes == {<<"none", "">>, <<"ok", "t1">>, <<"bad", "">>}

\* an annotation that forgets the formatted key
SetLastModifiedDocDateOnly(doc, out) ==
    IF out[1] = "ok"
    THEN [doc EXCEPT !.meta = SetKey(@, "last_modified_date", <<"datetime", out[2]>>)]
    ELSE doc

SetLastModifiedDoc(doc, out) ==
    IF out[1] = "ok"
    THEN [doc EXCEPT !.meta =
            SetKey(SetKey(@, "last_modified_date", <<"datetime", out[2]>>),
                   "last_modified", <<"strftime", out[2]>>)]
    ELSE doc

SetLastModified ==
    /\ pc = "set_last_modified"
    /\ idx <= Len(docs)
    /\ \E out \in LookupOutcomes :
          /\ lookup' = [lookup EXCEPT ![idx] = out]
          /\ IF out[1] = "bad"
             THEN /\ pc' = "error"
                  /\ errAt' = "set_last_modified"
                  /\ UNCHANGED <<idx, docs, touched>>
             ELSE /\ docs' = [docs EXCEPT ![idx] = SetLastModifiedDoc(@, out)]
                  /\ touched' = Touch(idx, "set_last_modified")
                  /\ idx' = idx + 1
                  /\ UNCHANGED <<pc, errAt>>
    /\ UNCHANGED <<stale, tree, dataDir, staticTree, data, files, dirs,
                   loaded, calls, branches, wrote>>

(***************************************************************************)
(* render: one step per document                                           *)
(***************************************************************************)
\* doc.file_name.endswith('.md')
IsMarkdown(file_name) == EndsWith(file_name, DOT_MD)

\* the second check written as the else of the first
IsJinja2Else(file_name) == ~EndsWith(file_name, DOT_MD)

\* doc.file_name.endswith('.jinja2')
IsJinja2(file_name) == EndsWith(file_name, DOT_JINJA2)

\* a context that holds a copy of the list taken by load_docs
ContextDocsSnapshot(ds, orig) == orig

\* the list context.docs a template sees: the live objects of the list
ContextDocs(ds, orig) == ds

\* the body of the for-loop for the document at position i; the result is
\* the list after the iteration, the render calls made and the branches taken
RenderDoc(ds, dt, orig, i) ==
    LET md == IsMarkdown(ds[i].file_name)
        d1 == IF md
              THEN [ds[i] EXCEPT !.content = Markdown(@),
                                 !.file_name = Replace(@, DOT_MD, DOT_HTML)]
              ELSE ds[i]
        ds1 == [ds EXCEPT ![i] = d1]
        ctx1 == Context(dt, ContextDocs(ds1, orig))
        d2 == IF md
              THEN [d1 EXCEPT !.content = TemplateRender("page", ctx1, d1)]
              ELSE d1
        j2 == IsJinja2(d2.file_name)
        d3 == IF j2
              THEN [d2 EXCEPT !.file_name = Replace(@, DOT_JINJA2, DOT_HTML)]
              ELSE d2
        ds3 == [ds EXCEPT ![i] = d3]
        ctx3 == Context(dt, ContextDocs(ds3, orig))
        d4 == IF j2
              THEN [d3 EXCEPT !.content = TemplateRender("self", ctx3, d3)]
              ELSE d3
    IN  [docs |-> [ds EXCEPT ![i] = d4],
         calls |-> (IF md THEN <<[doc |-> i, kind |-> "page", ctx |-> ctx1]>> ELSE <<>>)
                   \o (IF j2 THEN <<[doc |-> i, kind |-> "self", ctx |-> ctx3]>> ELSE <<>>),
         branches |-> (IF md THEN <<"md">> ELSE <<>>) \o (IF j2 THEN <<"jinja2">> ELSE <<>>)]

Render ==
    /\ pc = "render"
    /\ idx <= Len(docs)
    /\ LET r == RenderDoc(docs, data, loaded, idx)
       IN  /\ docs' = r.docs
           /\ calls' = calls \o r.calls
           /\ branches' = [branches EXCEPT ![idx] = r.branches]
    /\ touched' = Touch(idx, "render")
    /\ idx' = idx + 1
    /\ UNCHANGED <<pc, stale, tree, dataDir, staticTree, data, files, dirs, errAt,
                   loaded, lookup, wrote>>

(***************************************************************************)
(* prepare: one step per document                                          *)
(***************************************************************************)
\* doc.dir_name.replace('./content', './build')
SubstituteRoot(dir_name) == Replace(dir_name, CONTENT_DIR, BUILD_DIR)

\* '.'.join(doc.file_name.split('.')[:-1])
FinalDirName(file_name) ==
    LET parts == Split(file_name, ".")
    IN  Join(SubSeq(parts, 1, Len(parts) - 1), ".")

PrepareDoc(doc) ==
    LET d == SubstituteRoot(doc.dir_name)
    IN  IF EndsWith(doc.file_name, DOT_HTML) /\ doc.file_name # INDEX_HTML
        THEN [doc EXCEPT !.dir_name = PathJoin(d, FinalDirName(doc.file_name)),
                         !.file_name = INDEX_HTML]
        ELSE [doc EXCEPT !.dir_name = d]

Prepare ==
    /\ pc = "prepare"
    /\ idx <= Len(docs)
    /\ docs' = [docs EXCEPT ![idx] = PrepareDoc(@)]
    /\ touched' = Touch(idx, "prepare")
    /\ idx' = idx + 1
    /\ UNCHANGED <<pc, stale, tree, dataDir, staticTree, data, files, dirs, errAt,
                   loaded, lookup, calls, branches, wrote>>

(***************************************************************************)
(* persist: the reset of ./build, then one step per document               *)
(***************************************************************************)
BuildRoot == Components(BUILD_DIR)

\* shutil.copytree(STATIC_DIR, os.path.join(BUILD_DIR, STATIC_DIR))
StaticTarget == Components(PathJoin(BUILD_DIR, STATIC_DIR))

CopiedStatic ==
    {[path |-> StaticTarget \o f.path, content |-> f.content] : f \in staticTree.files}

\* a reset that copies the static tree over the old ./build
ResetFilesKeep(old) == old \cup CopiedStatic

\* rmtree and mkdir leave an empty ./build; copytree fills it
ResetFiles(old) == CopiedStatic

ResetDirs(old) ==
    {BuildRoot, StaticTarget}
        \cup UNION {ProperPrefixes(f.path) : f \in CopiedStatic}

PersistReset ==
    /\ pc = "persist_reset"
    /\ wrote' = TRUE
    /\ IF staticTree.exists
       THEN /\ files' = ResetFiles(files)
            /\ dirs' = ResetDirs(dirs)
            /\ pc' = NextStage(pc)
            /\ idx' = 1
            /\ UNCHANGED errAt
       ELSE /\ files' = {}
            /\ dirs' = {BuildRoot}
            /\ pc' = "error"
            /\ errAt' = "persist"
            /\ UNCHANGED idx
    /\ UNCHANGED <<stale, tree, dataDir, staticTree, docs, data,
                   loaded, lookup, calls, branches, touched>>

FullPath(doc) == PathJoin(doc.dir_name, doc.file_name)

\* os.path.exists(path)
Exists(path) == Components(path) \in dirs \/ IsFile(files, Components(path))

\* pathlib.Path(dir_name).mkdir(parents=True, exist_ok=True) succeeds unless
\* a component of the path is a regular file
MkdirFails(dir_name) == \E p \in Prefixes(Components(dir_name)) : IsFile(files, p)

\* open(full_path, 'w+') needs a directory to stand in and fails on a directory
OpenFails(ds, doc) ==
    \/ Components(doc.dir_name) \notin ds
    \/ Components(FullPath(doc)) \in ds

Persist ==
    /\ pc = "persist"
    /\ idx <= Len(docs)
    /\ LET doc == docs[idx]
           mk == ~Exists(doc.dir_name)
           ds == IF mk /\ ~MkdirFails(doc.dir_name)
                 THEN dirs \cup Prefixes(Components(doc.dir_name))
                 ELSE dirs
       IN  IF (mk /\ MkdirFails(doc.dir_name)) \/ OpenFails(ds, doc)
           THEN /\ pc' = "error"
                /\ errAt' = "persist"
                /\ dirs' = ds
                /\ UNCHANGED <<idx, files, touched>>
           ELSE /\ dirs' = ds
                /\ files' = WriteFile(files, Components(FullPath(doc)), doc.content)
                /\ touched' = Touch(idx, "persist")
                /\ idx' = idx + 1
                /\ UNCHANGED <<pc, errAt>>
    /\ UNCHANGED <<stale, tree, dataDir, staticTree, docs, data,
                   loaded, lookup, calls, branches, wrote>>

(***************************************************************************)
(* The end of a stage's loop hands control to the next stage of build.     *)
(***************************************************************************)
LoopLength(stage) == IF stage = "load_data" THEN Len(dataDir) ELSE Len(docs)

StageDone ==
    /\ pc \in {"load_data", "set_last_modified", "render", "prepare", "persist"}
    /\ idx > LoopLength(pc)
    /\ pc' = NextStage(pc)
    /\ idx' = 1
    /\ UNCHANGED <<stale, tree, dataDir, staticTree, docs, data, files, dirs, errAt,
                   loaded, lookup, calls, branches, touched, wrote>>

Next ==
    \/ LoadDocs
    \/ LoadData
    \/ SetLastModified
    \/ Render
    \/ Prepare
    \/ PersistReset
    \/ Persist
    \/ StageDone

(***************************************************************************)
(* The inputs of a build: the content tree, the data directory, the static *)
(* directory and whatever an earlier build left in ./build.                *)
(***************************************************************************)
RECURSIVE Concat(_)
Concat(ss) == IF ss = <<>> THEN <<>> ELSE Head(ss) \o Concat(Tail(ss))

SeqsUpTo(S, n) == UNION {[1..k -> S] : k \in 0..n}

NoRepeat(q) == \A i, j \in 1..Len(q) : i # j => q[i] # q[j]

FOO == <<"f", "o", "o">>
INDEX_MD == <<"i", "n", "d", "e", "x", ".", "m", "d">>
FOO_MD == <<"f", "o", "o", ".", "m", "d">>
FOO_JINJA2 == <<"f", "o", "o", ".", "j", "i", "n", "j", "a", "2">>
A_TXT == <<"a", ".", "t", "x", "t">>
A_MD == <<"a", ".", "m", "d">>
W_CSV == <<"w", ".", "c", "s", "v">>
SITE_CSS == <<"s", "i", "t", "e", ".", "c", "s", "s">>
CONTENT_FOO == CONTENT_DIR \o <<"/">> \o FOO

\* a file without front matter and a file whose front matter sets a key
PlainText == [fm |-> {}, body |-> "c1"]
FrontMatterText == [fm |-> {<<"last_modified", <<"yaml", "v">>>>}, body |-> "c2"]

Texts == {PlainText, FrontMatterText}

TreeDirs == {CONTENT_DIR, CONTENT_FOO}
TreeNames == {INDEX_MD, FOO_MD, FOO_JINJA2, A_TXT, FOO}

\* os.walk is top-down: the files of ./content come before those of
\* ./content/foo; a name is one file per directory, and foo cannot be both a
\* file and a directory of ./content
IsWalk(t) ==
    /\ \A i, j \in 1..Len(t) :
          /\ (i # j) => <<t[i].dir, t[i].name>> # <<t[j].dir, t[j].name>>
          /\ (i < j) => ~(t[i].dir = CONTENT_FOO /\ t[j].dir = CONTENT_DIR)
    /\ ~(/\ \E i \in 1..Len(t) : t[i].dir = CONTENT_FOO
         /\ \E i \in 1..Len(t) : t[i].dir = CONTENT_DIR /\ t[i].name = FOO)

Trees ==
    {t \in SeqsUpTo([dir : TreeDirs, name : TreeNames, text : Texts], MaxDocs) : IsWalk(t)}

StaticFile == [path |-> <<SITE_CSS>>, content |-> [body |-> "css", ops |-> <<>>]]
StaticPresent == [exists |-> TRUE, files |-> {StaticFile}]
StaticAbsent == [exists |-> FALSE, files |-> {}]

\* what an earlier build over a larger content set left behind
StaleFiles ==
    {[path |-> BuildRoot \o <<FOO, INDEX_HTML>>, content |-> [body |-> "old", ops |-> <<>>]],
     [path |-> BuildRoot \o <<<<"o", "l", "d">>, INDEX_HTML>>,
      content |-> [body |-> "old", ops |-> <<>>]]}

StaleDirs == {BuildRoot} \cup UNION {ProperPrefixes(f.path) : f \in StaleFiles}

\* file names of the content tree put together from pieces
NamePieces ==
    {<<"a">>, <<"x">>, <<"i", "n", "d", "e", "x">>, DOT_MD, DOT_JINJA2, DOT_HTML}

PieceNames == {Concat(q) : q \in SeqsUpTo(NamePieces, MaxPieces)} \ {<<>>}

\* directories below ./content put together from pieces
DirPieces ==
    {<<"/", "a">>, <<"/", "a", ".">>, <<"/", "c", "o", "n", "t", "e", "n", "t">>}

PieceDirs == {CONTENT_DIR \o Concat(q) : q \in SeqsUpTo(DirPieces, MaxDirPieces)}

\* entries of ./data
DataNames ==
    {W_CSV, <<"_", "x">>, <<"_", "y", ".", "c", "s", "v">>, <<"n", ".", "t", "x", "t">>,
     <<"w", ".", "t", "x", "t">>, <<"a", ".", "b", ".", "c", "s", "v">>, <<"R", "E", "A", "D">>}

DataDirs == {q \in SeqsUpTo(DataNames, MaxData) : NoRepeat(q)}

InitCommon ==
    /\ pc = "load_docs"
    /\ idx = 1
    /\ docs = <<>>
    /\ data = {}
    /\ errAt = ""
    /\ loaded = <<>>
    /\ lookup = <<>>
    /\ calls = <<>>
    /\ branches = <<>>
    /\ touched = <<>>
    /\ wrote = FALSE

\* content trees of several documents
InitTrees ==
    /\ tree \in Trees
    /\ dataDir = <<W_CSV>>
    /\ staticTree = StaticPresent
    /\ files = {}
    /\ dirs = {}

\* one document, every file name
InitNames ==
    /\ tree \in {<<[dir |-> CONTENT_DIR, name |-> n, text |-> PlainText]>> : n \in PieceNames}
    /\ dataDir = <<>>
    /\ staticTree = StaticPresent
    /\ files = {}
    /\ dirs = {}

\* one document, every directory
InitDirs ==
    /\ tree \in {<<[dir |-> d, name |-> n, text |-> PlainText]>> :
                    d \in PieceDirs, n \in {A_MD, INDEX_MD, A_TXT}}
    /\ dataDir = <<>>
    /\ staticTree = StaticPresent
    /\ files = {}
    /\ dirs = {}

\* every data directory
InitData ==
    /\ tree = <<[dir |-> CONTENT_DIR, name |-> INDEX_MD, text |-> PlainText]>>
    /\ dataDir \in DataDirs
    /\ staticTree = StaticPresent
    /\ files = {}
    /\ dirs = {}

\* a build directory left by an earlier build, a missing static directory
InitBuildDir ==
    /\ tree \in {t \in Trees : Len(t) <= 1}
    /\ dataDir = <<>>
    /\ staticTree \in {StaticPresent, StaticAbsent}
    /\ files \in SUBSET StaleFiles
    /\ dirs \in {{}, StaleDirs}
    /\ (files # {}) => (dirs = StaleDirs)

Init ==
    /\ InitCommon
    /\ \/ InitTrees
       \/ InitNames
       \/ InitDirs
       \/ InitData
       \/ InitBuildDir
    /\ stale = files

Spec == Init /\ [][Next]_vars

(***************************************************************************)
(* Vocabulary of the properties.                                           *)
(***************************************************************************)
Positions == 1..Len(docs)

Contains(s, sub) == \E k \in 1..(Len(s) - Len(sub) + 1) : SubSeq(s, k, k + Len(sub) - 1) = sub

HasKey(m, k) == k \in Keys(m)

\* the render stage has run over the whole list and prepare has not started
Rendered == pc = "prepare" /\ idx = 1

PassesThrough(file_name) == ~EndsWith(file_name, DOT_MD) /\ ~EndsWith(file_name, DOT_JINJA2)

ResolvedPath(doc) == Components(FullPath(doc))

(***************************************************************************)
(* C1.  Pretty-URL law: a document loaded from X.md, X non-empty, ends at  *)
(* <resolved-dir>/X/index.html after render and prepare, and at            *)
(* <resolved-dir>/index.html when X is index; <resolved-dir> is its        *)
(* directory with the content root replaced by the build root.  The law is *)
(* claimed for every X, names containing '.md' included.                   *)
(***************************************************************************)
C1_PrettyUrlLaw ==
    \A i \in Positions :
        LET name == loaded[i].file_name
            X == SubSeq(name, 1, Len(name) - Len(DOT_MD))
            resolved == SubstituteRoot(loaded[i].dir_name)
        IN  ("prepare" \in touched[i] /\ EndsWith(name, DOT_MD) /\ X # <<>>)
            => FullPath(docs[i]) =
                IF X = <<"i", "n", "d", "e", "x">>
                THEN PathJoin(resolved, INDEX_HTML)
                ELSE PathJoin(PathJoin(resolved, X), INDEX_HTML)

(***************************************************************************)
(* C2.  Passthrough: a document whose file name ends in neither '.md' nor  *)
(* '.jinja2' leaves render with the content and the file name load_docs    *)
(* gave it, wherever it stands in the list and whatever the others are.    *)
(***************************************************************************)
C2_Passthrough ==
    \A i \in Positions :
        ((pc = "render" \/ Rendered) /\ PassesThrough(loaded[i].file_name))
        => /\ docs[i].file_name = loaded[i].file_name
           /\ docs[i].content = loaded[i].content

\* render is over; a passthrough document stands after a rendered one
C2_Witness ==
    /\ Rendered
    /\ \E i, j \in Positions :
          /\ j < i
          /\ PassesThrough(loaded[i].file_name)
          /\ branches[j] # <<>>

(***************************************************************************)
(* C3.  After persist completes without error, the file at every           *)
(* document's resolved path holds that document's final content, also when *)
(* two documents resolve to the same path.                                 *)
(***************************************************************************)
C3_EveryDocumentOnDisk ==
    (pc = "done")
    => \A i \in Positions :
          [path |-> ResolvedPath(docs[i]), content |-> docs[i].content] \in files

(***************************************************************************)
(* C4.  Persistence reset: after persist completes, the files of ./build   *)
(* are exactly the copied static tree and the resolved paths of the        *)
(* documents of this run, whatever ./build held before.                    *)
(***************************************************************************)
C4_PersistenceReset ==
    (pc = "done")
    => {f.path : f \in files} =
          {StaticTarget \o f.path : f \in staticTree.files}
              \cup {ResolvedPath(docs[i]) : i \in Positions}

\* a build has completed over a ./build that held files of an earlier build
C4_Witness ==
    /\ pc = "done"
    /\ Positions # {}
    /\ \E f \in stale : f \notin files

(***************************************************************************)
(* C5.  After set_last_modified the keys last_modified_date and            *)
(* last_modified are present only when the lookup returned a timestamp;    *)
(* a lookup that returns nothing leaves the metadata as load_docs produced *)
(* it, and a timestamp sets both keys together.                            *)
(***************************************************************************)
C5_PresentOnlyOnSuccess ==
    \A i \in Positions :
        ("set_last_modified" \in touched[i])
        => /\ (HasKey(docs[i].meta, "last_modified_date") \/ HasKey(docs[i].meta, "last_modified"))
                => lookup[i][1] = "ok"
           /\ (lookup[i][1] = "none") => docs[i].meta = loaded[i].meta
           /\ (lookup[i][1] = "ok")
                => /\ HasKey(docs[i].meta, "last_modified_date")
                   /\ HasKey(docs[i].meta, "last_modified")

(***************************************************************************)
(* C5, amended.  set_last_modified adds or overwrites the two keys only    *)
(* when the lookup returned a timestamp: a lookup that returns nothing     *)
(* leaves the metadata as load_docs produced it (the keys are then present *)
(* exactly if the front matter supplied them), and a timestamp sets both   *)
(* keys together, from that timestamp, and leaves every other key alone.   *)
(***************************************************************************)
C5_SetOnlyOnSuccess ==
    \A i \in Positions :
        ("set_last_modified" \in touched[i])
        => /\ (lookup[i][1] = "none") => docs[i].meta = loaded[i].meta
           /\ (lookup[i][1] = "ok")
                => /\ <<"last_modified_date", <<"datetime", lookup[i][2]>>>> \in docs[i].meta
                   /\ <<"last_modified", <<"strftime", lookup[i][2]>>>> \in docs[i].meta
                   /\ \A p \in docs[i].meta \cup loaded[i].meta :
                         (p[1] \notin {"last_modified_date", "last_modified"})
                         => (p \in docs[i].meta <=> p \in loaded[i].meta)
                   /\ Cardinality(Keys(docs[i].meta)) = Cardinality(docs[i].meta)

\* one document got a timestamp over front matter that set last_modified,
\* another got nothing
C5_Witness ==
    \E i, j \in Positions :
        /\ "set_last_modified" \in touched[i]
        /\ "set_last_modified" \in touched[j]
        /\ lookup[i][1] = "ok"
        /\ HasKey(loaded[i].meta, "last_modified")
        /\ lookup[j][1] = "none"

(***************************************************************************)
(* C6.  During every template render call made by render, the document     *)
(* list visible through the context shows, for all documents, the content  *)
(* the document had when the render stage began.                           *)
(***************************************************************************)
C6_ContextShowsOriginal ==
    \A k \in 1..Len(calls) :
        \A j \in Positions : calls[k].ctx.docs[j].content = loaded[j].content

(***************************************************************************)
(* C6, amended.  During the render call made for the document at position  *)
(* i, the list visible through the context shows the original content of   *)
(* the documents after i, the content render has already produced for the  *)
(* documents before i, and for document i itself its body converted from   *)
(* markdown ('.md') or its original body ('.jinja2').                      *)
(***************************************************************************)
C6_ContextShowsLiveList ==
    \A k \in 1..Len(calls) :
        LET i == calls[k].doc
            seen == calls[k].ctx.docs
        IN  /\ Len(seen) = Len(docs)
            /\ \A j \in Positions :
                  seen[j].content =
                      IF j > i THEN loaded[j].content
                      ELSE IF j < i THEN docs[j].content
                      ELSE IF calls[k].kind = "page" THEN Markdown(loaded[i].content)
                      ELSE loaded[i].content

\* a render call was made for the second document after the first one had
\* been rendered
C6_Witness ==
    \E k \in 1..Len(calls) :
        /\ calls[k].doc = 2
        /\ branches[1] # <<>>

(***************************************************************************)
(* C7.  build runs load documents, load data, annotate, render, resolve    *)
(* paths, persist in this order, each stage over the whole list before the *)
(* next touches a document: nothing is annotated before the data is        *)
(* loaded, rendered before all are annotated, resolved before all are      *)
(* rendered, and ./build is not written before all paths are resolved.     *)
(***************************************************************************)
DataLoaded ==
    \A k \in 1..Len(dataDir) :
        (/\ ~StartsWith(dataDir[k], <<"_">>)
         /\ Unpacks(dataDir[k])
         /\ Split(dataDir[k], ".")[2] = CSV)
        => <<Split(dataDir[k], ".")[1], dataDir[k]>> \in data

C7_StagesInOrder ==
    /\ \A i \in Positions :
          /\ (lookup[i][1] # "pending") => DataLoaded
          /\ ("render" \in touched[i])
                => \A j \in Positions : "set_last_modified" \in touched[j]
          /\ ("prepare" \in touched[i])
                => \A j \in Positions : "render" \in touched[j]
          /\ ("persist" \in touched[i]) => wrote
    /\ (wrote \/ files # stale) => \A j \in Positions : "prepare" \in touched[j]
    /\ (pc # "load_docs") => Len(docs) = Len(tree)

\* persist is half way through a list of two documents
C7_Witness ==
    /\ pc = "persist"
    /\ Len(docs) = 2
    /\ "persist" \in touched[1]
    /\ "persist" \notin touched[2]
    /\ data # {}

(***************************************************************************)
(* C8.  load_data completes without error over every entry that does not   *)
(* start with '_' and contains a '.': the text before the first '.' names  *)
(* the dataset, loaded if the extension is csv and ignored otherwise; only *)
(* a qualifying name without any '.' is fatal, and entries starting with   *)
(* '_' contribute nothing.                                                 *)
(***************************************************************************)
Qualifies(file_name) == ~StartsWith(file_name, <<"_">>)

\* the extension: the text after the last '.'
Extension(file_name) == Split(file_name, ".")[Len(Split(file_name, "."))]

ExpectedData ==
    {<<Split(dataDir[k], ".")[1], dataDir[k]>> :
        k \in {n \in 1..Len(dataDir) :
                  /\ Qualifies(dataDir[n])
                  /\ Contains(dataDir[n], <<".">>)
                  /\ Extension(dataDir[n]) = CSV}}

C8_LoadDataTotal ==
    /\ (errAt = "load_data")
          => \E k \in 1..Len(dataDir) :
                Qualifies(dataDir[k]) /\ ~Contains(dataDir[k], <<".">>)
    /\ (pc \notin {"load_docs", "load_data", "error"}) => data = ExpectedData

(***************************************************************************)
(* C9.  prepare substitutes only the content-root prefix: a document found *)
(* at relative directory P under the content root has, after the           *)
(* substitution, the directory build root followed by P unchanged.         *)
(***************************************************************************)
C9_PrefixOnly ==
    \A i \in Positions :
        LET P == SubSeq(loaded[i].dir_name, Len(CONTENT_DIR) + 1, Len(loaded[i].dir_name))
        IN  ("prepare" \in touched[i])
            => /\ StartsWith(docs[i].dir_name, BUILD_DIR \o P)
               /\ (docs[i].file_name # INDEX_HTML) => docs[i].dir_name = BUILD_DIR \o P

(***************************************************************************)
(* C10.  Render dispatch is mutually exclusive: at most one of the '.md'   *)
(* and '.jinja2' branches runs for a document, the name the '.md' branch   *)
(* produces never satisfies the '.jinja2' guard, and the two independent   *)
(* checks give every document the file name and content an exclusive       *)
(* if / else-if would give it.                                             *)
(***************************************************************************)
RenderDocExclusive(ds, dt, i) ==
    IF IsMarkdown(ds[i].file_name)
    THEN LET d1 == [ds[i] EXCEPT !.content = Markdown(@),
                                 !.file_name = Replace(@, DOT_MD, DOT_HTML)]
         IN  [d1 EXCEPT !.content =
                TemplateRender("page", Context(dt, [ds EXCEPT ![i] = d1]), d1)]
    ELSE IF IsJinja2(ds[i].file_name)
    THEN LET d1 == [ds[i] EXCEPT !.file_name = Replace(@, DOT_JINJA2, DOT_HTML)]
         IN  [d1 EXCEPT !.content =
                TemplateRender("self", Context(dt, [ds EXCEPT ![i] = d1]), d1)]
    ELSE ds[i]

C10_DispatchExclusive ==
    /\ \A i \in Positions : Len(branches[i]) <= 1
    /\ (pc = "render" /\ idx <= Len(docs))
          => RenderDoc(docs, data, loaded, idx).docs[idx] = RenderDocExclusive(docs, data, idx)

\* the '.md' branch ran for a name that also holds '.jinja2'
C10_Witness ==
    \E i \in Positions :
        /\ branches[i] = <<"md">>
        /\ Contains(loaded[i].file_name, DOT_JINJA2)

====
